---- MODULE Spec2Model ----
(***************************************************************************)
(* Coverage aggregation of coverage_aggregate.py: the two gcov parsers     *)
(* (parse_gcov_coverage, parse_gcov_lines) and the cumulative report       *)
(* writer (write_cumulative_gcov).  Text is a sequence of one-character    *)
(* strings, so that splitting, matching, int() and formatting are          *)
(* computed the way the code computes them.                                *)
(***************************************************************************)
EXTENDS Integers, Sequences, FiniteSets, TLC

----------------------------------------------------------------------------
(* Bounds *)
MaxFiles == 3        \* paths in the list given to write_cumulative_gcov
MaxLines == 2        \* lines of a snapshot folded by write_cumulative_gcov
MaxParseLines == 2   \* lines of a snapshot given to the parsers alone
MaxExportLines == 2  \* coverage lines of a snapshot given to the exporters alone
MaxDirs == 2         \* run directories given to aggregate_directories
MaxSnapshots == 2    \* *.gcov.txt files in the run directories of one pass
MaxPasses == 2       \* invocations of main on one output directory
MaxStem == 3         \* characters before ".c" in a path given to _source_to_dirname

----------------------------------------------------------------------------
(* Characters *)
NL == "\n"
Whitespace == {" ", "\t"}
Digits == {"0", "1", "2", "3", "4", "5", "6", "7", "8", "9"}
MarkerChars == {"-", "#"} \cup Digits      \* the class [-0-9#]

DigitVal ==
  [c \in Digits |-> CASE c = "0" -> 0 [] c = "1" -> 1 [] c = "2" -> 2
                      [] c = "3" -> 3 [] c = "4" -> 4 [] c = "5" -> 5
                      [] c = "6" -> 6 [] c = "7" -> 7 [] c = "8" -> 8
                      [] c = "9" -> 9]

DigitChar ==
  [d \in 0..9 |-> CASE d = 0 -> "0" [] d = 1 -> "1" [] d = 2 -> "2"
                    [] d = 3 -> "3" [] d = 4 -> "4" [] d = 5 -> "5"
                    [] d = 6 -> "6" [] d = 7 -> "7" [] d = 8 -> "8"
                    [] d = 9 -> "9"]

\* Index of the first character at or after i that is not in C
\* (Len(s) + 1 when there is none): the end of a greedy run of C.
RECURSIVE Span(_, _, _)
Span(s, i, C) ==
  IF i > Len(s) \/ s[i] \notin C THEN i ELSE Span(s, i + 1, C)

\* Index of the first ch at or after k (Len(s) + 1 when there is none)
RECURSIVE IndexOf(_, _, _)
IndexOf(s, ch, k) ==
  IF k > Len(s) \/ s[k] = ch THEN k ELSE IndexOf(s, ch, k + 1)

\* str.split("\n"): the pieces between newlines; always at least one piece.
RECURSIVE SplitFrom(_, _)
SplitFrom(s, k) ==
  LET j == IndexOf(s, NL, k)
  IN  IF j > Len(s) THEN <<SubSeq(s, k, Len(s))>>
      ELSE <<SubSeq(s, k, j - 1)>> \o SplitFrom(s, j + 1)

Split(s) == SplitFrom(s, 1)

\* "\n".join(lines)
RECURSIVE Join(_)
Join(ls) ==
  IF ls = <<>> THEN <<>>
  ELSE IF Len(ls) = 1 THEN ls[1]
  ELSE ls[1] \o <<NL>> \o Join(Tail(ls))

\* int() of a run of decimal digits
RECURSIVE DigitsToInt(_)
DigitsToInt(ds) ==
  IF ds = <<>> THEN 0
  ELSE 10 * DigitsToInt(SubSeq(ds, 1, Len(ds) - 1)) + DigitVal[ds[Len(ds)]]

AllDigits(s) == s # <<>> /\ \A k \in 1..Len(s) : s[k] \in Digits

\* int(cov_str) succeeds on digits with an optional leading minus sign
\* (no other character of [-0-9#]+ is accepted); otherwise ValueError.
IntParses(s) ==
  \/ AllDigits(s)
  \/ s # <<>> /\ s[1] = "-" /\ AllDigits(Tail(s))

IntOf(s) == IF s[1] = "-" THEN 0 - DigitsToInt(Tail(s)) ELSE DigitsToInt(s)

\* str(n) for n >= 0
RECURSIVE IntToDigits(_)
IntToDigits(n) ==
  IF n < 10 THEN <<DigitChar[n]>>
  ELSE Append(IntToDigits(n \div 10), DigitChar[n % 10])

\* Left padding with spaces to width w: the format spec ">w"
RECURSIVE PadLeft(_, _)
PadLeft(s, w) == IF Len(s) >= w THEN s ELSE PadLeft(<<" ">> \o s, w)

----------------------------------------------------------------------------
(* The line grammars *)

\* re.match(r"^\s*([-0-9#]+):\s*(\d+):", line)
CoverageMatch(line) ==
  LET a == Span(line, 1, Whitespace)
      b == Span(line, a, MarkerChars)
      c == Span(line, b + 1, Whitespace)
      d == Span(line, c, Digits)
  IN  [ok      |-> /\ b > a /\ b <= Len(line) /\ line[b] = ":"
                   /\ d > c /\ d <= Len(line) /\ line[d] = ":",
       cov_str |-> SubSeq(line, a, b - 1),
       num     |-> SubSeq(line, c, d - 1)]

\* re.match(r"^(\s*)([-0-9#]+)(\s*):\s*(\d+):(.*)$", line)
LinesMatch(line) ==
  LET a == Span(line, 1, Whitespace)
      b == Span(line, a, MarkerChars)
      g == Span(line, b, Whitespace)
      c == Span(line, g + 1, Whitespace)
      d == Span(line, c, Digits)
  IN  [ok        |-> /\ b > a /\ g <= Len(line) /\ line[g] = ":"
                     /\ d > c /\ d <= Len(line) /\ line[d] = ":",
       count_str |-> SubSeq(line, a, b - 1),
       num       |-> SubSeq(line, c, d - 1),
       rest      |-> SubSeq(line, d + 1, Len(line))]

Dash == <<"-">>
Hashes == <<"#", "#", "#", "#", "#">>
Plus == <<"+">>

----------------------------------------------------------------------------
(* parse_gcov_coverage: one iteration of its loop, then the whole loop *)

SetEntry(coverage, n, v) ==
  [k \in DOMAIN coverage \cup {n} |-> IF k = n THEN v ELSE coverage[k]]

CoverageCount(cov_str) ==
  IF cov_str = Hashes THEN 0
  ELSE IF IntParses(cov_str) THEN IntOf(cov_str)
  ELSE 0

\* A loop without the test for "-": the marker goes on to int(), which fails.
CoverageStep_nodash(coverage, line) ==
  LET m == CoverageMatch(line)
  IN  IF ~m.ok THEN coverage
      ELSE SetEntry(coverage, DigitsToInt(m.num), CoverageCount(m.cov_str))

CoverageStep(coverage, line) ==
  LET m == CoverageMatch(line)
  IN  IF ~m.ok THEN coverage
      ELSE IF m.cov_str = Dash THEN coverage
      ELSE SetEntry(coverage, DigitsToInt(m.num), CoverageCount(m.cov_str))

EmptyMap == [k \in {} |-> 0]

RECURSIVE CoverageOver(_, _)
CoverageOver(coverage, ls) ==
  IF ls = <<>> THEN coverage
  ELSE CoverageOver(CoverageStep(coverage, Head(ls)), Tail(ls))

parse_gcov_coverage(content) == CoverageOver(EmptyMap, Split(content))

----------------------------------------------------------------------------
(* parse_gcov_lines: one iteration of its loop, then the whole loop *)

\* A loop that skips an unparseable line, as parse_gcov_coverage does.
LinesStep_drop(lines_out, line) ==
  LET m == LinesMatch(line)
  IN  IF ~m.ok THEN lines_out
      ELSE Append(lines_out, <<m.count_str, DigitsToInt(m.num), m.rest>>)

LinesStep(lines_out, line) ==
  LET m == LinesMatch(line)
  IN  IF ~m.ok THEN Append(lines_out, <<Dash, 0, line>>)
      ELSE Append(lines_out, <<m.count_str, DigitsToInt(m.num), m.rest>>)

RECURSIVE LinesOver(_, _)
LinesOver(lines_out, ls) ==
  IF ls = <<>> THEN lines_out
  ELSE LinesOver(LinesStep(lines_out, Head(ls)), Tail(ls))

parse_gcov_lines(content) == LinesOver(<<>>, Split(content))

----------------------------------------------------------------------------
(* Input texts *)
ln_dash1 == <<" ", "-", ":", " ", "1", ":", "a">>
ln_zero1 == <<"#", "#", "#", "#", "#", ":", " ", "1", ":", "a">>
ln_hit1 == <<" ", "3", ":", " ", "1", ":", "a">>
ln_dash2 == <<" ", "-", ":", " ", "2", ":", "b">>
ln_hit2 == <<" ", "1", ":", " ", "2", ":", "b">>
ln_bad == <<"o", "o", "p", "s">>
ln_neg == <<" ", "-", "5", ":", " ", "3", ":", "c">>
ln_dd == <<" ", "-", "-", ":", " ", "3", ":", "c">>
ln_lead0 == <<" ", "0", "0", "7", ":", "0", "1", "2", ":", "d">>
ln_gap == <<" ", "5", " ", ":", " ", "4", ":", "e">>
ln_nonum == <<" ", "2", ":", ":", " ", "f">>
ln_empty == <<>>

FoldLines == {ln_dash1, ln_zero1, ln_hit1, ln_hit2, ln_bad}
ParseLines == FoldLines \cup {ln_dash2, ln_neg, ln_dd, ln_lead0, ln_gap, ln_nonum, ln_empty}

SeqsUpTo(S, n) == UNION {[1..k -> S] : k \in 0..n}

\* The text of the given lines, each newline-terminated when nl holds
\* and the last one unterminated otherwise.
MkText(ls, nl) == IF nl /\ ls # <<>> THEN Join(ls) \o <<NL>> ELSE Join(ls)

\* A RawSnapshot has unique line numbers: no two well-formed lines of it
\* carry the same number.
UniqueNumbers(ls) ==
  \A j, k \in 1..Len(ls) :
    (j # k /\ LinesMatch(ls[j]).ok /\ LinesMatch(ls[k]).ok)
      => DigitsToInt(LinesMatch(ls[j]).num) # DigitsToInt(LinesMatch(ls[k]).num)

\* The snapshots folded are gcov output: every line newline-terminated.
FoldContents ==
  {MkText(ls, TRUE) : ls \in {l \in SeqsUpTo(FoldLines, MaxLines) : UniqueNumbers(l)}}
ParseContents == {MkText(ls, nl) : ls \in SeqsUpTo(ParseLines, MaxParseLines), nl \in BOOLEAN}

\* The metadata line of a snapshot of a.c
hdr_a == <<" ", "-", ":", " ", "0", ":", "S", "o", "u", "r", "c", "e", ":", "a", ".", "c">>

ExportLines == {ln_dash1, ln_zero1, ln_hit2, ln_lead0, ln_neg}
ExportContents ==
  {MkText(h \o ls, TRUE) : h \in {<<>>, <<hdr_a>>},
                           ls \in SeqsUpTo(ExportLines, MaxExportLines)}

----------------------------------------------------------------------------
(* Text helpers of the source resolver and of the exporters *)

\* s[k..] begins with pat
HasAt(s, pat, k) ==
  /\ k + Len(pat) - 1 <= Len(s)
  /\ \A j \in 1..Len(pat) : s[k + j - 1] = pat[j]

\* str.find(pat): the first index where pat occurs, 0 when it does not
\* (Python's -1)
RECURSIVE FindFrom(_, _, _)
FindFrom(s, pat, k) ==
  IF k + Len(pat) - 1 > Len(s) THEN 0
  ELSE IF HasAt(s, pat, k) THEN k
  ELSE FindFrom(s, pat, k + 1)

Find(s, pat) == FindFrom(s, pat, 1)
Contains(s, pat) == Find(s, pat) # 0

StartsWith(s, pat) == HasAt(s, pat, 1)
EndsWith(s, pat) == Len(pat) <= Len(s) /\ HasAt(s, pat, Len(s) - Len(pat) + 1)

\* Index of the last character not in C (0 when there is none)
RECURSIVE SpanBack(_, _, _)
SpanBack(s, k, C) ==
  IF k < 1 \/ s[k] \notin C THEN k ELSE SpanBack(s, k - 1, C)

\* str.strip(chars)
StripChars(s, C) == SubSeq(s, Span(s, 1, C), SpanBack(s, Len(s), C))
Strip(s) == StripChars(s, Whitespace)

\* str.replace(a, b) for single characters
ReplaceChar(s, a, b) == [k \in 1..Len(s) |-> IF s[k] = a THEN b ELSE s[k]]

\* str(n) for any integer
IntToStr(n) == IF n < 0 THEN <<"-">> \o IntToDigits(0 - n) ELSE IntToDigits(n)

\* Left padding with zeros to width w: the format spec "0wd" (n >= 0)
RECURSIVE PadZero(_, _)
PadZero(s, w) == IF Len(s) >= w THEN s ELSE PadZero(<<"0">> \o s, w)

\* sorted(S) for a finite set of integers
RECURSIVE Sorted(_)
Sorted(S) ==
  IF S = {} THEN <<>>
  ELSE LET m == CHOOSE x \in S : \A y \in S : x <= y
       IN  <<m>> \o Sorted(S \ {m})

\* Optional[str]
NoPath == [some |-> FALSE, val |-> <<>>]
SomePath(p) == [some |-> TRUE, val |-> p]

\* Python truth of an Optional[str]: neither None nor ""
Truthy(o) == o.some /\ o.val # <<>>

txt_ColonSource == <<":", "S", "o", "u", "r", "c", "e", ":">>
txt_Source == <<"S", "o", "u", "r", "c", "e", ":">>
txt_unknown_c == <<"u", "n", "k", "n", "o", "w", "n", ".", "c">>
txt_unknown == <<"u", "n", "k", "n", "o", "w", "n">>
txt_dot_c == <<".", "c">>
txt_up == <<".", ".", "/">>
txt_here == <<".", "/">>
txt_SF == <<"S", "F", ":">>
txt_DA == <<"D", "A", ":">>
txt_end_of_record == <<"e", "n", "d", "_", "o", "f", "_", "r", "e", "c", "o", "r", "d">>
txt_info == <<".", "i", "n", "f", "o">>
txt_json == <<".", "j", "s", "o", "n">>

----------------------------------------------------------------------------
(* parse_gcov_source_path *)

RECURSIVE SourceOver(_)
SourceOver(ls) ==
  IF ls = <<>> THEN NoPath
  ELSE IF Contains(Head(ls), txt_ColonSource)
         THEN SomePath(Strip(SubSeq(Head(ls), Find(Head(ls), txt_Source) + 7,
                                    Len(Head(ls)))))
         ELSE SourceOver(Tail(ls))

parse_gcov_source_path(content) == SourceOver(Split(content))

----------------------------------------------------------------------------
(* The tracefile exporters *)

\* source_path or parse_gcov_source_path(content) or "unknown.c"
ExportPath(content, source_path) ==
  IF Truthy(source_path) THEN source_path.val
  ELSE IF Truthy(parse_gcov_source_path(content))
         THEN parse_gcov_source_path(content).val
  ELSE txt_unknown_c

DALine(ln, count) == txt_DA \o IntToStr(ln) \o <<",">> \o IntToStr(count)

\* An exporter that writes the DA lines in descending line order.
gcov_to_lcov_info_desc(content, source_path) ==
  LET cov  == parse_gcov_coverage(content)
      keys == Sorted(DOMAIN cov)
      n    == Len(keys)
  IN  Join(<<txt_SF \o ExportPath(content, source_path)>>
           \o [k \in 1..n |-> DALine(keys[n + 1 - k], cov[keys[n + 1 - k]])]
           \o <<txt_end_of_record>>)

gcov_to_lcov_info(content, source_path) ==
  LET cov  == parse_gcov_coverage(content)
      keys == Sorted(DOMAIN cov)
  IN  Join(<<txt_SF \o ExportPath(content, source_path)>>
           \o [k \in 1..Len(keys) |-> DALine(keys[k], cov[keys[k]])]
           \o <<txt_end_of_record>>)

LineEntry(ln, count) ==
  [line_number |-> ln, function_name |-> "", count |-> count, branches |-> <<>>]

GcovrRecord(path, line_entries) ==
  [format_version |-> "0.14",
   files |-> <<[file |-> path, lines |-> line_entries, functions |-> <<>>]>>]

\* An exporter that records whether a line was hit instead of its count.
gcov_to_gcovr_json_hit(content, source_path) ==
  LET cov  == parse_gcov_coverage(content)
      keys == Sorted(DOMAIN cov)
  IN  GcovrRecord(ExportPath(content, source_path),
        [k \in 1..Len(keys) |->
           LineEntry(keys[k], IF cov[keys[k]] > 0 THEN 1 ELSE 0)])

\* An exporter that lists the executed lines only.
gcov_to_gcovr_json_executed(content, source_path) ==
  LET cov  == parse_gcov_coverage(content)
      keys == Sorted({n \in DOMAIN cov : cov[n] > 0})
  IN  GcovrRecord(ExportPath(content, source_path),
        [k \in 1..Len(keys) |-> LineEntry(keys[k], cov[keys[k]])])

\* gcov_to_gcovr_json without a workspace root: the path is kept raw
gcov_to_gcovr_json(content, source_path) ==
  LET cov  == parse_gcov_coverage(content)
      keys == Sorted(DOMAIN cov)
  IN  GcovrRecord(ExportPath(content, source_path),
        [k \in 1..Len(keys) |-> LineEntry(keys[k], cov[keys[k]])])

\* The source_path arguments given to the exporters
path_x == <<"x", ".", "c">>
ExportSources == {NoPath, SomePath(path_x)}

----------------------------------------------------------------------------
(* write_cumulative_gcov *)

EmptyMerged == [executable |-> {}, covered |-> {}]

\* A fold with "first report wins": a line already seen is not looked at again.
Merge_first(M, cov) ==
  [executable |-> M.executable \cup DOMAIN cov,
   covered    |-> M.covered \cup
                  {n \in DOMAIN cov : cov[n] > 0 /\ n \notin M.executable}]

\* A fold that tests membership before the line of this map is added.
Merge_lag(M, cov) ==
  [executable |-> M.executable \cup DOMAIN cov,
   covered    |-> M.covered \cup
                  {n \in DOMAIN cov : cov[n] > 0 /\ n \in M.executable}]

\* A fold with "most recent wins": a zero count uncovers the line.
Merge_recent(M, cov) ==
  [executable |-> M.executable \cup DOMAIN cov,
   covered    |-> (M.covered \ {n \in DOMAIN cov : cov[n] <= 0})
                  \cup {n \in DOMAIN cov : cov[n] > 0}]

\* A fold that adds to one set or the other (an else branch).
Merge_else(M, cov) ==
  [executable |-> M.executable \cup {n \in DOMAIN cov : cov[n] <= 0},
   covered    |-> M.covered \cup {n \in DOMAIN cov : cov[n] > 0}]

\* for line_num, count in cov.items(): executable.add; if count > 0: covered.add
Merge(M, cov) ==
  [executable |-> M.executable \cup DOMAIN cov,
   covered    |-> M.covered \cup {n \in DOMAIN cov : cov[n] > 0}]

\* The fold of the loop over a list of ExecutionMaps
RECURSIVE FoldMaps(_, _)
FoldMaps(M, maps) ==
  IF maps = <<>> THEN M ELSE FoldMaps(Merge(M, Head(maps)), Tail(maps))

\* A template that every snapshot replaces (the last one wins).
ChooseTemplate_last(template, content) == parse_gcov_lines(content)

\* if not template_lines: template_lines = parse_gcov_lines(content)
ChooseTemplate(template, content) ==
  IF template = <<>> THEN parse_gcov_lines(content) ELSE template

PrefixDash == <<" ", " ", " ", " ", " ", " ", " ", " ", "-">>
PrefixPlus == <<" ", " ", " ", " ", " ", " ", " ", " ", "+">>
PrefixHashes == <<" ", " ", " ", " ", "#", "#", "#", "#", "#">>

ReportPrefix(count_str, line_num, covered, executable) ==
  IF count_str = Dash THEN PrefixDash
  ELSE IF line_num \in covered THEN PrefixPlus
  ELSE IF line_num \in executable THEN PrefixHashes
  ELSE PrefixDash

\* f"{prefix}: {line_num:>4}:{rest}"
ReportLine(rec, covered, executable) ==
  ReportPrefix(rec[1], rec[2], covered, executable)
    \o <<":", " ">> \o PadLeft(IntToDigits(rec[2]), 4) \o <<":">> \o rec[3]

ReportText(template, covered, executable) ==
  Join([k \in 1..Len(template) |-> ReportLine(template[k], covered, executable)])
    \o <<NL>>

NoFile == [exists |-> FALSE, text |-> <<>>]
File(text) == [exists |-> TRUE, text |-> text]

VARIABLES
  pc,                 \* "entry", "loop", "done": position in write_cumulative_gcov
  npaths,             \* len(gcov_paths)
  i,                  \* paths of gcov_paths the loop has taken
  merged_covered,
  merged_executable,
  template_lines,
  output,             \* the file at output_path
  ret,                \* "none" until the function returns, then "True" or "False"
  folded,             \* history: the ExecutionMaps folded so far, in order
  first_content,      \* history: the text of the first existing path
  p_fn,               \* the parser under way: "coverage" or "lines"
  p_content,          \* its argument
  p_i,                \* pieces of content.split("\n") it has taken
  coverage,           \* parse_gcov_coverage's dict
  lines_out,          \* parse_gcov_lines' list
  p_pc,               \* "loop" or "returned"
  e_content,          \* the exporters' argument content
  e_source,           \* the exporters' argument source_path
  e_info,             \* gcov_to_lcov_info's result, once it has returned
  e_json,             \* gcov_to_gcovr_json's result, once it has returned
  a_pc,               \* position in aggregate_directories
  results_dirs,       \* history: the run directories taken so far
  a_ndirs,            \* len(results_dirs)
  all_info,           \* names of the line-trace files written
  all_json,           \* names of the structured-trace files written
  all_gcov_paths,     \* the snapshot paths kept for the cumulative reports
  by_source,          \* group_gcov_paths_by_source's dict, in insertion order
  a_keys,             \* sorted keys of by_source still to take
  out_files,          \* tracefiles in output_dir: name and snapshot exported
  out_reports,        \* per-source reports in output_dir: dir name and text
  out_global,         \* output_dir/cumulative.gcov.txt
  written,            \* history: per key taken, the dir name and text written
  a_log,              \* messages printed
  a_ret,              \* "none", "True" or "False" once returned, or the
                      \* name of the exception that left the function
  a_tools,            \* use_lcov, use_gcovr and what the tools did when run
  a_ok,               \* the local ok of aggregate_directories
  m_pc,               \* main: "idle", "called" or "exited"
  m_pass,             \* invocations of main so far
  m_exit,             \* exit status of the last invocation: "none", "0", "1"
  o_dir,              \* names of the files present in output_dir
  o_summary,          \* merged_summary.txt next to output_dir
  d_path,             \* _source_to_dirname's argument
  d_name              \* its result, once it has returned

foldvars == <<pc, npaths, i, merged_covered, merged_executable, template_lines,
              output, ret, folded, first_content>>
parsevars == <<p_fn, p_content, p_i, coverage, lines_out, p_pc>>
expvars == <<e_content, e_source, e_info, e_json>>
aggvars == <<a_pc, results_dirs, a_ndirs, all_info, all_json, all_gcov_paths,
             by_source, a_keys, out_files, out_reports, out_global, written,
             a_log, a_ret>>
mainvars == <<a_tools, a_ok, m_pc, m_pass, m_exit, o_dir, o_summary>>
dirvars == <<d_path, d_name>>
vars == <<foldvars, parsevars, expvars, aggvars, mainvars, dirvars>>

FoldInit ==
  /\ pc = "entry"
  /\ npaths \in 0..MaxFiles
  /\ i = 0
  /\ merged_covered = {}
  /\ merged_executable = {}
  /\ template_lines = <<>>
  /\ output = NoFile
  /\ ret = "none"
  /\ folded = <<>>
  /\ first_content = NoFile

ParseIdle ==
  /\ p_fn = "coverage"
  /\ p_content = <<>>
  /\ p_i = 0
  /\ coverage = EmptyMap
  /\ lines_out = <<>>
  /\ p_pc = "returned"

NoResult == [done |-> FALSE]

ExportIdle ==
  /\ e_content = <<>>
  /\ e_source = NoPath
  /\ e_info = NoResult
  /\ e_json = NoResult

AggIdle ==
  /\ a_pc = "done"
  /\ results_dirs = <<>>
  /\ a_ndirs = 0
  /\ all_info = <<>>
  /\ all_json = <<>>
  /\ all_gcov_paths = <<>>
  /\ by_source = <<>>
  /\ a_keys = <<>>
  /\ out_files = <<>>
  /\ out_reports = <<>>
  /\ out_global = NoFile
  /\ written = <<>>
  /\ a_log = <<>>
  /\ a_ret = "none"

\* The tools' part of a pass: nothing requested or run yet
NoTools == [use_lcov |-> FALSE, use_gcovr |-> FALSE, lcov |-> "none",
            summary |-> "none", gcovr |-> "none"]

EmptyDir == [tracefiles |-> {}, reports |-> {}, global |-> FALSE,
             merged_info |-> FALSE]
NoSummary == [exists |-> FALSE, pass |-> 0, text |-> <<>>]

MainIdle ==
  /\ a_tools = NoTools
  /\ a_ok = TRUE
  /\ m_pc = "idle"
  /\ m_pass = 0
  /\ m_exit = "none"
  /\ o_dir = EmptyDir
  /\ o_summary = NoSummary

DirIdle ==
  /\ d_path = <<>>
  /\ d_name = NoResult

Init == FoldInit /\ ParseIdle /\ ExportIdle /\ AggIdle /\ MainIdle /\ DirIdle

\* if not gcov_paths: return False; otherwise the three locals are set up
Entry ==
  /\ pc = "entry"
  /\ IF npaths = 0
       THEN pc' = "done" /\ ret' = "False"
       ELSE pc' = "loop" /\ ret' = ret
  /\ UNCHANGED <<npaths, i, merged_covered, merged_executable, template_lines,
                 output, folded, first_content>>
  /\ UNCHANGED <<parsevars, expvars, aggvars, mainvars, dirvars>>

\* if not p.exists(): continue
SkipMissing ==
  /\ pc = "loop"
  /\ i < npaths
  /\ i' = i + 1
  /\ UNCHANGED <<pc, npaths, merged_covered, merged_executable, template_lines,
                 output, ret, folded, first_content>>
  /\ UNCHANGED <<parsevars, expvars, aggvars, mainvars, dirvars>>

\* One iteration of the loop on an existing path whose text is content
FoldOne(content) ==
  /\ pc = "loop"
  /\ i < npaths
  /\ LET cov == parse_gcov_coverage(content)
         M   == Merge([executable |-> merged_executable,
                       covered |-> merged_covered], cov)
     IN  /\ merged_executable' = M.executable
         /\ merged_covered' = M.covered
         /\ folded' = Append(folded, cov)
  /\ template_lines' = ChooseTemplate(template_lines, content)
  /\ first_content' = IF first_content.exists THEN first_content ELSE File(content)
  /\ i' = i + 1
  /\ UNCHANGED <<pc, npaths, output, ret>>
  /\ UNCHANGED <<parsevars, expvars, aggvars, mainvars, dirvars>>

\* After the loop: return False without a template, else write the report
Finish ==
  /\ pc = "loop"
  /\ i = npaths
  /\ pc' = "done"
  /\ IF template_lines = <<>>
       THEN ret' = "False" /\ output' = output
       ELSE /\ output' = File(ReportText(template_lines, merged_covered,
                                         merged_executable))
            /\ ret' = "True"
  /\ UNCHANGED <<npaths, i, merged_covered, merged_executable, template_lines,
                 folded, first_content>>
  /\ UNCHANGED <<parsevars, expvars, aggvars, mainvars, dirvars>>

Next ==
  \/ Entry
  \/ SkipMissing
  \/ \E content \in FoldContents : FoldOne(content)
  \/ Finish

Spec == Init /\ [][Next]_vars

----------------------------------------------------------------------------
(* The two parsers run alone on one text, one loop iteration per step *)

FoldIdle ==
  /\ pc = "done"
  /\ npaths = 0
  /\ i = 0
  /\ merged_covered = {}
  /\ merged_executable = {}
  /\ template_lines = <<>>
  /\ output = NoFile
  /\ ret = "none"
  /\ folded = <<>>
  /\ first_content = NoFile

ParseInit ==
  /\ FoldIdle
  /\ ExportIdle
  /\ AggIdle
  /\ MainIdle
  /\ DirIdle
  /\ p_fn \in {"coverage", "lines"}
  /\ p_content \in ParseContents
  /\ p_i = 0
  /\ coverage = EmptyMap
  /\ lines_out = <<>>
  /\ p_pc = "loop"

Pieces == Split(p_content)

CoverageIter ==
  /\ p_pc = "loop"
  /\ p_fn = "coverage"
  /\ p_i < Len(Pieces)
  /\ coverage' = CoverageStep(coverage, Pieces[p_i + 1])
  /\ p_i' = p_i + 1
  /\ UNCHANGED <<p_fn, p_content, lines_out, p_pc>>
  /\ UNCHANGED <<foldvars, expvars, aggvars, mainvars, dirvars>>

LinesIter ==
  /\ p_pc = "loop"
  /\ p_fn = "lines"
  /\ p_i < Len(Pieces)
  /\ lines_out' = LinesStep(lines_out, Pieces[p_i + 1])
  /\ p_i' = p_i + 1
  /\ UNCHANGED <<p_fn, p_content, coverage, p_pc>>
  /\ UNCHANGED <<foldvars, expvars, aggvars, mainvars, dirvars>>

ParseReturn ==
  /\ p_pc = "loop"
  /\ p_i = Len(Pieces)
  /\ p_pc' = "returned"
  /\ UNCHANGED <<p_fn, p_content, p_i, coverage, lines_out>>
  /\ UNCHANGED <<foldvars, expvars, aggvars, mainvars, dirvars>>

ParseNext == CoverageIter \/ LinesIter \/ ParseReturn

SpecParse == ParseInit /\ [][ParseNext]_vars

----------------------------------------------------------------------------
(* The line grammar stated as the existence of a match, independently of    *)
(* the greedy scan: blanks, a marker over [-0-9#], blanks, ":", blanks,     *)
(* digits, ":".  The coverage grammar allows no blank after the marker.     *)

AllIn(s, lo, hi, C) == \A k \in lo..hi : s[k] \in C

GrammarMatch(line, gapAllowed) ==
  \E a \in 0..Len(line) :
    /\ AllIn(line, 1, a, Whitespace)
    /\ \E b \in (a + 1)..Len(line) :
         /\ AllIn(line, a + 1, b, MarkerChars)
         /\ \E g \in b..(IF gapAllowed THEN Len(line) ELSE b) :
              /\ AllIn(line, b + 1, g, Whitespace)
              /\ g + 1 <= Len(line)
              /\ line[g + 1] = ":"
              /\ \E c \in (g + 1)..Len(line) :
                   /\ AllIn(line, g + 2, c, Whitespace)
                   /\ \E d \in (c + 1)..Len(line) :
                        /\ AllIn(line, c + 1, d, Digits)
                        /\ d + 1 <= Len(line)
                        /\ line[d + 1] = ":"

WellFormed(line) == GrammarMatch(line, TRUE)
CoverageFormed(line) == GrammarMatch(line, FALSE)

UniqueNumber(k) ==
  \A j \in 1..Len(Pieces) :
    (j # k /\ CoverageFormed(Pieces[j]))
      => CoverageMatch(Pieces[j]).num # CoverageMatch(Pieces[k]).num

LineNumber(line) == DigitsToInt(CoverageMatch(line).num)
Marker(line) == CoverageMatch(line).cov_str

\* C8: in the ExecutionMap returned by parse_gcov_coverage for a snapshot
\* (line numbers unique), a line n marked "#####" has the entry n -> 0, a
\* line n marked with the non-negative integer c has the entry n -> c, a
\* line marked "-" has no entry, and every entry comes from a line that
\* matches the grammar with a marker other than "-".
C8_ExecutionMapEntries ==
  (p_fn = "coverage" /\ p_pc = "returned") =>
    /\ \A k \in 1..Len(Pieces) :
         (CoverageFormed(Pieces[k]) /\ UniqueNumber(k)) =>
           LET n == LineNumber(Pieces[k])
               mk == Marker(Pieces[k])
           IN  /\ mk = Hashes => (n \in DOMAIN coverage /\ coverage[n] = 0)
               /\ AllDigits(mk) =>
                    (n \in DOMAIN coverage /\ coverage[n] = DigitsToInt(mk))
               /\ mk = Dash => n \notin DOMAIN coverage
    /\ \A n \in DOMAIN coverage :
         \E k \in 1..Len(Pieces) :
           /\ CoverageFormed(Pieces[k])
           /\ LineNumber(Pieces[k]) = n
           /\ Marker(Pieces[k]) # Dash

C8_Witness ==
  /\ p_fn = "coverage"
  /\ p_pc = "returned"
  /\ \E j, k \in 1..Len(Pieces) :
       /\ CoverageFormed(Pieces[j]) /\ UniqueNumber(j)
       /\ CoverageFormed(Pieces[k]) /\ UniqueNumber(k)
       /\ Marker(Pieces[j]) = Hashes
       /\ AllDigits(Marker(Pieces[k]))
       /\ coverage[LineNumber(Pieces[j])] = 0
       /\ coverage[LineNumber(Pieces[k])] > 0

\* C9: every count stored in the ExecutionMap is a non-negative integer.
C9_CountsNonNegative ==
  \A n \in DOMAIN coverage : coverage[n] >= 0

----------------------------------------------------------------------------
(* Properties of the fold of write_cumulative_gcov *)

Merged == [executable |-> merged_executable, covered |-> merged_covered]

UnionMerged(A, B) ==
  [executable |-> A.executable \cup B.executable,
   covered    |-> A.covered \cup B.covered]

Permuted(maps, p) == [k \in 1..Len(maps) |-> maps[p[k]]]

\* C1: the MergedCoverage of the maps folded so far is the same for every
\* permutation of the list, and for every split of a permutation into two
\* sub-folds whose results are combined by set union.
C1_OrderAndSplitInvariant ==
  \A p \in Permutations(1..Len(folded)) :
    LET maps == Permuted(folded, p)
    IN  /\ FoldMaps(EmptyMerged, maps) = Merged
        /\ \A k \in 0..Len(maps) :
             UnionMerged(FoldMaps(EmptyMerged, SubSeq(maps, 1, k)),
                         FoldMaps(EmptyMerged, SubSeq(maps, k + 1, Len(maps))))
               = Merged

C1_Witness ==
  /\ pc = "done"
  /\ Len(folded) >= 3
  /\ folded[1] # folded[2] /\ folded[2] # folded[3] /\ folded[1] # folded[3]
  /\ \E n \in DOMAIN folded[1] \cap DOMAIN folded[2] :
       folded[1][n] = 0 /\ folded[2][n] > 0 /\ n \in merged_covered

\* C2: folding an ExecutionMap A a second time changes nothing: in the state
\* reached by folding A into any M, which is fold(M, [A]), folding A again
\* gives the same executable_lines and covered_lines.
C2_Idempotent ==
  folded # <<>> =>
    LET A == folded[Len(folded)]
    IN  /\ Merge(Merged, A) = Merged
        /\ FoldMaps(Merged, <<A, A>>) = FoldMaps(Merged, <<A>>)

C2_Witness ==
  /\ Len(folded) >= 2
  /\ folded[Len(folded)] = folded[Len(folded) - 1]
  /\ \E n \in DOMAIN folded[Len(folded)] : folded[Len(folded)][n] > 0
  /\ Merged = FoldMaps(EmptyMerged, SubSeq(folded, 1, Len(folded) - 1))

\* C3: a step of the fold never removes a line from executable_lines or
\* covered_lines, and a line covered by any snapshot folded so far is in
\* covered_lines after every further step.
C3_Monotonic ==
  [][/\ merged_executable \subseteq merged_executable'
     /\ merged_covered \subseteq merged_covered'
     /\ \A k \in 1..Len(folded') :
          \A n \in DOMAIN folded'[k] :
            folded'[k][n] > 0 => n \in merged_covered']_vars

C3_Witness ==
  /\ Len(folded) >= 2
  /\ \E n \in DOMAIN folded[1] \cap DOMAIN folded[2] :
       folded[1][n] > 0 /\ folded[2][n] = 0 /\ n \in merged_covered

\* C4: covered_lines is a subset of executable_lines in every state of the fold.
C4_CoveredSubsetExecutable ==
  merged_covered \subseteq merged_executable

C4_Witness ==
  /\ Len(folded) >= 2
  /\ merged_covered # {}
  /\ merged_covered # merged_executable

----------------------------------------------------------------------------
(* Properties of the report written by write_cumulative_gcov *)

\* The marker of a report line: the text before the first ":", blanks removed
OutMarker(line) ==
  SubSeq(line, Span(line, 1, Whitespace), IndexOf(line, ":", 1) - 1)

RECURSIVE CountNL(_)
CountNL(s) ==
  IF s = <<>> THEN 0
  ELSE (IF Head(s) = NL THEN 1 ELSE 0) + CountNL(Tail(s))

\* The text is a sequence of newline-terminated lines
NewlineTerminated(s) == s = <<>> \/ s[Len(s)] = NL

Written == pc = "done" /\ ret = "True"

\* C5: in the report, the marker of the output line of template line n is
\* "-" exactly when n is not in executable_lines, "+" exactly when n is in
\* covered_lines, and "#####" otherwise, whatever the template's own marker.
C5_MarkerFromMergedSets ==
  Written =>
    \A k \in 1..Len(template_lines) :
      LET n  == template_lines[k][2]
          mk == OutMarker(Split(output.text)[k])
      IN  /\ mk = Dash <=> n \notin merged_executable
          /\ mk = Plus <=> n \in merged_covered
          /\ mk = Hashes <=> n \in merged_executable \ merged_covered

\* C6: a template of N >= 1 newline-terminated lines gives a report of exactly N
\* newline-terminated lines, the k-th carrying the line number and raw_tail
\* of the k-th template line.
C6_LineCountPreserved ==
  (Written /\ first_content.text # <<>>
           /\ NewlineTerminated(first_content.text)) =>
    LET N    == CountNL(first_content.text)
        tmpl == parse_gcov_lines(first_content.text)
        outl == Split(output.text)
    IN  /\ NewlineTerminated(output.text)
        /\ CountNL(output.text) = N
        /\ \A k \in 1..N :
             \E prefix \in {PrefixDash, PrefixPlus, PrefixHashes} :
               outl[k] = prefix \o <<":", " ">>
                           \o PadLeft(IntToDigits(tmpl[k][2]), 4)
                           \o <<":">> \o tmpl[k][3]

\* C10: the template is the parse of the first existing path of the list,
\* and once chosen it is never replaced by a later snapshot.
C10_TemplateIsFirst ==
  [][/\ template_lines # <<>> => template_lines' = template_lines
     /\ IF first_content'.exists
          THEN template_lines' = parse_gcov_lines(first_content'.text)
          ELSE template_lines' = <<>>]_vars

C10_Witness ==
  /\ Written
  /\ Len(folded) >= 2
  /\ i > Len(folded)
  /\ folded[1] # folded[2]
  /\ template_lines = parse_gcov_lines(first_content.text)

----------------------------------------------------------------------------
(* The two exporters run alone on one snapshot *)

ExportInit ==
  /\ FoldIdle
  /\ ParseIdle
  /\ AggIdle
  /\ MainIdle
  /\ DirIdle
  /\ e_content \in ExportContents
  /\ e_source \in ExportSources
  /\ e_info = NoResult
  /\ e_json = NoResult

ExportLcov ==
  /\ ~e_info.done
  /\ e_info' = [done |-> TRUE, val |-> gcov_to_lcov_info(e_content, e_source)]
  /\ UNCHANGED <<e_content, e_source, e_json>>
  /\ UNCHANGED <<foldvars, parsevars, aggvars, mainvars, dirvars>>

ExportGcovr ==
  /\ ~e_json.done
  /\ e_json' = [done |-> TRUE, val |-> gcov_to_gcovr_json(e_content, e_source)]
  /\ UNCHANGED <<e_content, e_source, e_info>>
  /\ UNCHANGED <<foldvars, parsevars, aggvars, mainvars, dirvars>>

ExportNext == ExportLcov \/ ExportGcovr

SpecExport == ExportInit /\ [][ExportNext]_vars

\* The ExecutionMap of the snapshot given to the exporters
EMap == parse_gcov_coverage(e_content)

\* A reader of one DA record: "DA:" digits "," integer
ReadDA(line) ==
  LET comma == IndexOf(line, ",", 1)
      lnStr == SubSeq(line, 4, comma - 1)
      cStr  == SubSeq(line, comma + 1, Len(line))
  IN  IF StartsWith(line, txt_DA) /\ comma <= Len(line)
         /\ AllDigits(lnStr) /\ IntParses(cStr)
        THEN [ok |-> TRUE, ln |-> DigitsToInt(lnStr), count |-> IntOf(cStr)]
        ELSE [ok |-> FALSE, ln |-> 0, count |-> 0]

\* C15: the line trace is one "SF:<path>" line, then exactly one
\* "DA:<line_number>,<count>" line per entry of the ExecutionMap in strictly
\* ascending line-number order, then "end_of_record" as the last line.
C15_LcovBlock ==
  e_info.done =>
    LET ls == Split(e_info.val)
        n  == Len(ls)
    IN  /\ n = Cardinality(DOMAIN EMap) + 2
        /\ ls[1] = txt_SF \o ExportPath(e_content, e_source)
        /\ \A k \in 2..n : ~StartsWith(ls[k], txt_SF)
        /\ ls[n] = txt_end_of_record
        /\ \A k \in 2..(n - 1) :
             LET da == ReadDA(ls[k])
             IN  /\ da.ok
                 /\ da.ln \in DOMAIN EMap
                 /\ da.count = EMap[da.ln]
                 /\ ls[k] = txt_DA \o IntToStr(da.ln) \o <<",">> \o IntToStr(da.count)
                 /\ k > 2 => ReadDA(ls[k - 1]).ln < da.ln

\* The snapshot lists a larger line number before a smaller one, with a
\* zero and a positive count
OutOfOrderMap ==
  /\ Cardinality(DOMAIN EMap) >= 2
  /\ \E a, b \in DOMAIN EMap : EMap[a] = 0 /\ EMap[b] > 0
  /\ LET recs == parse_gcov_lines(e_content)
     IN  \E j, k \in 1..Len(recs) :
           j < k /\ recs[j][1] # Dash /\ recs[k][1] # Dash /\ recs[j][2] > recs[k][2]

C15_Witness ==
  /\ e_info.done
  /\ OutOfOrderMap
  /\ Len(Split(e_info.val)) >= 4

\* C16: the structured trace has a schema-version tag and exactly one file
\* entry, whose lines array has one object per ExecutionMap entry in strictly
\* ascending line_number order, each with an empty function_name, an empty
\* branches list and the map's count, and whose functions array is empty.
C16_GcovrRecord ==
  e_json.done =>
    LET j == e_json.val
    IN  /\ j.format_version = "0.14"
        /\ Len(j.files) = 1
        /\ j.files[1].functions = <<>>
        /\ Len(j.files[1].lines) = Cardinality(DOMAIN EMap)
        /\ \A k \in 1..Len(j.files[1].lines) :
             LET e == j.files[1].lines[k]
             IN  /\ DOMAIN e = {"line_number", "function_name", "count", "branches"}
                 /\ e.function_name = ""
                 /\ e.branches = <<>>
                 /\ e.line_number \in DOMAIN EMap
                 /\ e.count = EMap[e.line_number]
                 /\ k > 1 => j.files[1].lines[k - 1].line_number < e.line_number

C16_Witness ==
  /\ e_json.done
  /\ OutOfOrderMap
  /\ Len(e_json.val.files[1].lines) >= 2
  /\ \E k \in 1..Len(e_json.val.files[1].lines) :
       e_json.val.files[1].lines[k].count > 1

\* The (line_number, count) pairs of a map, of the DA records of a line
\* trace, and of the lines array of a structured trace
PairsOfMap(E) == {<<n, E[n]>> : n \in DOMAIN E}

PairsOfInfo(text) ==
  {<<ReadDA(l).ln, ReadDA(l).count>> :
     l \in {Split(text)[k] : k \in {m \in 1..Len(Split(text)) : ReadDA(Split(text)[m]).ok}}}

PairsOfJson(j) ==
  {<<j.files[1].lines[k].line_number, j.files[1].lines[k].count>> :
     k \in 1..Len(j.files[1].lines)}

\* C17: reading the (line_number, count) pairs back from the DA records of
\* the line trace, and from the lines array of the structured trace, gives
\* exactly the ExecutionMap: the same keys, the same count for each key.
C17_RoundTrip ==
  /\ e_info.done => PairsOfInfo(e_info.val) = PairsOfMap(EMap)
  /\ e_json.done => PairsOfJson(e_json.val) = PairsOfMap(EMap)

C17_Witness ==
  /\ e_info.done
  /\ e_json.done
  /\ \E a, b \in DOMAIN EMap : EMap[a] = 0 /\ EMap[b] > 1
  /\ PairsOfInfo(e_info.val) = PairsOfMap(EMap)
  /\ PairsOfJson(e_json.val) # {}

----------------------------------------------------------------------------
(* aggregate_directories: inputs *)

hdr_b == <<" ", "-", ":", " ", "0", ":", "S", "o", "u", "r", "c", "e", ":", "b", ".", "c">>
hdr_up == <<" ", "-", ":", " ", "0", ":", "S", "o", "u", "r", "c", "e", ":", ".", ".", "\\", "a", ".", "c">>
hdr_h == <<" ", "-", ":", " ", "0", ":", "S", "o", "u", "r", "c", "e", ":", "a", ".", "h">>

\* Snapshots found in run directories
snap_a1 == MkText(<<hdr_a, ln_hit1>>, TRUE)
snap_a2 == MkText(<<hdr_a, ln_zero1, ln_hit2>>, TRUE)
snap_b == MkText(<<hdr_b, ln_hit1>>, TRUE)
snap_up == MkText(<<hdr_up, ln_zero1>>, TRUE)
snap_none == MkText(<<ln_hit1>>, TRUE)
snap_h == MkText(<<hdr_h, ln_hit1>>, TRUE)
AggContents == {snap_a1, snap_a2, snap_b, snap_up, snap_none, snap_h}

\* Basenames of run directories
name_r == <<"r", "-", "1">>
DirNames == {name_r}

\* A run directory: whether it exists, its basename, and the texts of its
\* *.gcov.txt files in sorted(glob) order
\* (unreadable: the file that sorted(glob) lists after these is missing or
\* cannot be read)
AbsentDir == [exists |-> FALSE, name |-> <<>>, files |-> <<>>, unreadable |-> FALSE]
Dir(name, files) ==
  [exists |-> TRUE, name |-> name, files |-> files, unreadable |-> FALSE]

\* The path of the k-th snapshot file of results_dirs[idx], and its text
\* (p.read_text())
PathOf(idx, k) == [dir |-> idx, file |-> k]
Read(dirs, p) == dirs[p.dir + 1].files[p.file]

----------------------------------------------------------------------------
(* convert_dir_to_tracefiles *)

\* A directory of files as a list of (name, exported snapshot): the content
\* of a tracefile is the exporter's text for that snapshot
RECURSIVE WriteFile(_, _, _)
WriteFile(fs, name, val) ==
  IF fs = <<>> THEN <<[name |-> name, val |-> val]>>
  ELSE IF Head(fs).name = name THEN <<[name |-> name, val |-> val]>> \o Tail(fs)
  ELSE <<Head(fs)>> \o WriteFile(Tail(fs), name, val)

HasFile(fs, name) == \E k \in DOMAIN fs : fs[k].name = name
FileOf(fs, name) == fs[CHOOSE k \in DOMAIN fs : fs[k].name = name].val

\* f"{base_name}_{idx:05d}" + extension
TraceName(base_name, idx, ext) ==
  base_name \o <<"_">> \o PadZero(IntToDigits(idx), 5) \o ext

\* only_c_sources and (not source_path or not source_path.endswith(".c"))
IsCSource(source_path) ==
  Truthy(source_path) /\ EndsWith(source_path.val, txt_dot_c)

EmptyAcc == [all_info |-> <<>>, all_json |-> <<>>, all_gcov_paths |-> <<>>,
             out_files |-> <<>>]

\* The loop over gcov_files from its k-th file on, idx tracefiles written
RECURSIVE ConvertOver(_, _, _, _, _, _)
ConvertOver(acc, d, files, k, base_name, idx) ==
  IF k > Len(files) THEN acc
  ELSE IF ~IsCSource(parse_gcov_source_path(files[k]))
         THEN ConvertOver(acc, d, files, k + 1, base_name, idx)
  ELSE LET info_path == TraceName(base_name, idx, txt_info)
           json_path == TraceName(base_name, idx, txt_json)
       IN  ConvertOver(
             [acc EXCEPT !.all_info = Append(@, info_path),
                         !.all_json = Append(@, json_path),
                         !.out_files = WriteFile(WriteFile(@, info_path, PathOf(d, k)),
                                                 json_path, PathOf(d, k))],
             d, files, k + 1, base_name, idx + 1)

convert_dir_to_tracefiles(acc, d, files, base_name) ==
  ConvertOver(acc, d, files, 1, base_name, 0)

----------------------------------------------------------------------------
(* aggregate_directories: the loop over results_dirs *)

\* A base name without the directory index.
BaseName_noidx(idx, name) ==
  ReplaceChar(name, "-", "_")

\* f"{idx:04d}_{res_dir.name}".replace("-", "_")
BaseName(idx, name) ==
  ReplaceChar(PadZero(IntToDigits(idx), 4) \o <<"_">> \o name, "-", "_")

\* for p in sorted(res_dir.glob("*.gcov.txt")): keep p if src and src.endswith(".c")
RECURSIVE KeepOver(_, _, _, _)
KeepOver(paths, d, files, k) ==
  IF k > Len(files) THEN paths
  ELSE KeepOver(IF IsCSource(parse_gcov_source_path(files[k]))
                  THEN Append(paths, PathOf(d, k)) ELSE paths,
                d, files, k + 1)

\* A loop in which an absent directory drops what was collected before it.
TakeDir_reset(acc, idx, res_dir) ==
  IF ~res_dir.exists THEN EmptyAcc
  ELSE LET conv == convert_dir_to_tracefiles(acc, idx, res_dir.files,
                                             BaseName(idx, res_dir.name))
       IN  [conv EXCEPT !.all_gcov_paths = KeepOver(@, idx, res_dir.files, 1)]

\* One iteration of the loop: continue when the directory does not exist
TakeDir(acc, idx, res_dir) ==
  IF ~res_dir.exists THEN acc
  ELSE LET conv == convert_dir_to_tracefiles(acc, idx, res_dir.files,
                                             BaseName(idx, res_dir.name))
       IN  [conv EXCEPT !.all_gcov_paths = KeepOver(@, idx, res_dir.files, 1)]

----------------------------------------------------------------------------
(* group_gcov_paths_by_source, _source_to_dirname *)

\* (parse_gcov_source_path(content) or "unknown.c").replace("\\", "/").strip()
SourceKey(content) ==
  LET source == parse_gcov_source_path(content)
  IN  Strip(ReplaceChar(IF Truthy(source) THEN source.val ELSE txt_unknown_c,
                        "\\", "/"))

\* A grouping that puts every path into the first group.
GroupAdd_first(groups, key, p) ==
  IF groups # <<>>
    THEN [g \in DOMAIN groups |->
            IF g = 1 THEN [groups[g] EXCEPT !.paths = Append(@, p)]
                     ELSE groups[g]]
    ELSE Append(groups, [key |-> key, paths |-> <<p>>])

\* groups[key].append(p), the key added at the end of the dict when new
GroupAdd(groups, key, p) ==
  IF \E g \in DOMAIN groups : groups[g].key = key
    THEN [g \in DOMAIN groups |->
            IF groups[g].key = key
              THEN [groups[g] EXCEPT !.paths = Append(@, p)]
              ELSE groups[g]]
    ELSE Append(groups, [key |-> key, paths |-> <<p>>])

RECURSIVE GroupOver(_, _, _)
GroupOver(groups, dirs, gcov_paths) ==
  IF gcov_paths = <<>> THEN groups
  ELSE GroupOver(GroupAdd(groups, SourceKey(Read(dirs, Head(gcov_paths))),
                          Head(gcov_paths)),
                 dirs, Tail(gcov_paths))

group_gcov_paths_by_source(dirs, gcov_paths) == GroupOver(<<>>, dirs, gcov_paths)

\* s[len(prefix):] for the first of "../", "./" that s starts with
StripPrefix(s) ==
  IF StartsWith(s, txt_up) THEN SubSeq(s, Len(txt_up) + 1, Len(s))
  ELSE IF StartsWith(s, txt_here) THEN SubSeq(s, Len(txt_here) + 1, Len(s))
  ELSE s

\* A directory name that keeps the path separators.
source_to_dirname_keep(source_path) ==
  IF source_path = <<>> \/ source_path = txt_unknown_c THEN txt_unknown
  ELSE Strip(source_path)

\* _source_to_dirname
source_to_dirname(source_path) ==
  IF source_path = <<>> \/ source_path = txt_unknown_c THEN txt_unknown
  ELSE LET s == StripPrefix(Strip(ReplaceChar(source_path, "\\", "/")))
           d == StripChars(ReplaceChar(s, "/", "_"), {"_"})
       IN  IF d = <<>> THEN txt_unknown ELSE d

\* Characters in code point order, for the comparison of str
CodeOrder ==
  <<" ", "#", "+", ",", "-", ".", "/",
    "0", "1", "2", "3", "4", "5", "6", "7", "8", "9", ":",
    "A", "B", "C", "D", "E", "F", "G", "H", "I", "J", "K", "L", "M",
    "N", "O", "P", "Q", "R", "S", "T", "U", "V", "W", "X", "Y", "Z",
    "\\", "_",
    "a", "b", "c", "d", "e", "f", "g", "h", "i", "j", "k", "l", "m",
    "n", "o", "p", "q", "r", "s", "t", "u", "v", "w", "x", "y", "z">>
Ord(ch) == CHOOSE k \in DOMAIN CodeOrder : CodeOrder[k] = ch

\* a < b for two str
RECURSIVE StrLess(_, _)
StrLess(a, b) ==
  IF b = <<>> THEN FALSE
  ELSE IF a = <<>> THEN TRUE
  ELSE IF Head(a) # Head(b) THEN Ord(Head(a)) < Ord(Head(b))
  ELSE StrLess(Tail(a), Tail(b))

\* sorted(by_source.items()): the keys in ascending order
RECURSIVE SortedKeys(_)
SortedKeys(K) ==
  IF K = {} THEN <<>>
  ELSE LET m == CHOOSE x \in K : \A y \in K \ {x} : StrLess(x, y)
       IN  <<m>> \o SortedKeys(K \ {m})

Keys(groups) == {groups[g].key : g \in DOMAIN groups}
PathsOf(groups, key) ==
  groups[CHOOSE g \in DOMAIN groups : groups[g].key = key].paths

----------------------------------------------------------------------------
(* write_cumulative_gcov as called by aggregate_directories *)

RECURSIVE TemplateOver(_, _)
TemplateOver(template, contents) ==
  IF contents = <<>> THEN template
  ELSE TemplateOver(ChooseTemplate(template, Head(contents)), Tail(contents))

\* The return value and, when it is True, the text written to output_path
write_cumulative_gcov(contents) ==
  IF contents = <<>> THEN [ret |-> FALSE, text |-> <<>>]
  ELSE LET M == FoldMaps(EmptyMerged,
                         [k \in DOMAIN contents |-> parse_gcov_coverage(contents[k])])
           template == TemplateOver(<<>>, contents)
       IN  IF template = <<>> THEN [ret |-> FALSE, text |-> <<>>]
           ELSE [ret |-> TRUE,
                 text |-> ReportText(template, M.covered, M.executable)]

ContentsOf(dirs, paths) == [k \in DOMAIN paths |-> Read(dirs, paths[k])]

\* Messages of aggregate_directories
Msg(kind, name, runs) == [kind |-> kind, name |-> name, runs |-> runs]
MsgNoGcov == Msg("No .gcov.txt files found.", <<>>, 0)
MsgReport(dir_name, runs) == Msg("cumulative.gcov.txt (runs)", dir_name, runs)
MsgGlobal == Msg("Global cumulative", <<>>, 0)

----------------------------------------------------------------------------
(* aggregate_directories: one pass *)

RECURSIVE TotalFiles(_)
TotalFiles(dirs) ==
  IF dirs = <<>> THEN 0 ELSE Len(Head(dirs).files) + TotalFiles(Tail(dirs))

\* Exceptions that leave aggregate_directories
ReadError == "OSError in read_text"
WriteError == "OSError in write_text"
TimeoutError == "TimeoutExpired"
Exceptions == {ReadError, WriteError, TimeoutError}

Acc == [all_info |-> all_info, all_json |-> all_json,
        all_gcov_paths |-> all_gcov_paths, out_files |-> out_files]

AggInit ==
  /\ FoldIdle /\ ParseIdle /\ ExportIdle /\ MainIdle /\ DirIdle
  /\ a_pc = "dirs"
  /\ a_ndirs \in 0..MaxDirs
  /\ results_dirs = <<>>
  /\ all_info = <<>>
  /\ all_json = <<>>
  /\ all_gcov_paths = <<>>
  /\ by_source = <<>>
  /\ a_keys = <<>>
  /\ out_files = <<>>
  /\ out_reports = <<>>
  /\ out_global = NoFile
  /\ written = <<>>
  /\ a_log = <<>>
  /\ a_ret = "none"

\* One iteration of "for idx, res_dir in enumerate(results_dirs)" on a
\* directory that does not exist: continue
AggDirAbsent ==
  /\ a_pc = "dirs"
  /\ Len(results_dirs) < a_ndirs
  /\ LET acc == TakeDir(Acc, Len(results_dirs), AbsentDir)
     IN  /\ all_info' = acc.all_info
         /\ all_json' = acc.all_json
         /\ all_gcov_paths' = acc.all_gcov_paths
         /\ out_files' = acc.out_files
  /\ results_dirs' = Append(results_dirs, AbsentDir)
  /\ UNCHANGED <<a_pc, a_ndirs, by_source, a_keys, out_reports, out_global,
                 written, a_log, a_ret>>
  /\ UNCHANGED <<foldvars, parsevars, expvars, mainvars, dirvars>>

\* One iteration on an existing directory: convert_dir_to_tracefiles, then
\* the glob loop
AggDir ==
  /\ a_pc = "dirs"
  /\ Len(results_dirs) < a_ndirs
  /\ \E name \in DirNames :
       \E files \in SeqsUpTo(AggContents, MaxSnapshots - TotalFiles(results_dirs)) :
         LET acc == TakeDir(Acc, Len(results_dirs), Dir(name, files))
         IN  /\ all_info' = acc.all_info
             /\ all_json' = acc.all_json
             /\ all_gcov_paths' = acc.all_gcov_paths
             /\ out_files' = acc.out_files
             /\ results_dirs' = Append(results_dirs, Dir(name, files))
  /\ UNCHANGED <<a_pc, a_ndirs, by_source, a_keys, out_reports, out_global,
                 written, a_log, a_ret>>
  /\ UNCHANGED <<foldvars, parsevars, expvars, mainvars, dirvars>>

\* One iteration on an existing directory in which read_text() raises on
\* the file after files: convert_dir_to_tracefiles has written the tracefiles
\* of files and the exception leaves aggregate_directories
AggDirUnreadable ==
  /\ a_pc = "dirs"
  /\ Len(results_dirs) < a_ndirs
  /\ TotalFiles(results_dirs) < MaxSnapshots
  /\ \E name \in DirNames :
       \E files \in SeqsUpTo(AggContents,
                             MaxSnapshots - TotalFiles(results_dirs) - 1) :
         LET idx == Len(results_dirs)
             acc == convert_dir_to_tracefiles(Acc, idx, files, BaseName(idx, name))
         IN  /\ out_files' = acc.out_files
             /\ results_dirs' = Append(results_dirs,
                                       [Dir(name, files) EXCEPT !.unreadable = TRUE])
  /\ a_ret' = ReadError
  /\ a_pc' = "done"
  /\ UNCHANGED <<a_ndirs, all_info, all_json, all_gcov_paths, by_source, a_keys,
                 out_reports, out_global, written, a_log>>
  /\ UNCHANGED <<foldvars, parsevars, expvars, mainvars, dirvars>>

\* After the loop: return False when no tracefile was written, group otherwise
AggGroup ==
  /\ a_pc = "dirs"
  /\ Len(results_dirs) = a_ndirs
  /\ IF all_info = <<>> /\ all_json = <<>>
       THEN /\ a_log' = Append(a_log, MsgNoGcov)
            /\ a_ret' = "False"
            /\ a_pc' = "done"
            /\ UNCHANGED <<by_source, a_keys>>
       ELSE /\ by_source' = group_gcov_paths_by_source(results_dirs, all_gcov_paths)
            /\ a_keys' = SortedKeys(Keys(by_source'))
            /\ a_pc' = "sources"
            /\ UNCHANGED <<a_log, a_ret>>
  /\ UNCHANGED <<results_dirs, a_ndirs, all_info, all_json, all_gcov_paths,
                 out_files, out_reports, out_global, written>>
  /\ UNCHANGED <<foldvars, parsevars, expvars, mainvars, dirvars>>

\* The body of "for source_key, paths in sorted(by_source.items())" on the
\* reports, the history and the messages st
SourceStep(st, dirs, groups, source_key) ==
  LET paths == PathsOf(groups, source_key)
      dir_name == source_to_dirname(source_key)
      res == write_cumulative_gcov(ContentsOf(dirs, paths))
  IN  IF ~EndsWith(source_key, txt_dot_c) THEN st
      ELSE IF ~res.ret THEN st
      ELSE [out_reports |-> WriteFile(st.out_reports, dir_name, res.text),
            written |-> Append(st.written, [key |-> source_key,
                                            name |-> dir_name,
                                            text |-> res.text]),
            a_log |-> Append(st.a_log, MsgReport(dir_name, Len(paths)))]

\* One iteration of the loop over the sorted keys
AggSource ==
  /\ a_pc = "sources"
  /\ a_keys # <<>>
  /\ LET st == SourceStep([out_reports |-> out_reports, written |-> written,
                           a_log |-> a_log],
                          results_dirs, by_source, Head(a_keys))
     IN  /\ out_reports' = st.out_reports
         /\ written' = st.written
         /\ a_log' = st.a_log
  /\ a_keys' = Tail(a_keys)
  /\ UNCHANGED <<a_pc, results_dirs, a_ndirs, all_info, all_json, all_gcov_paths,
                 by_source, out_files, out_global, a_ret>>
  /\ UNCHANGED <<foldvars, parsevars, expvars, mainvars, dirvars>>

\* One iteration in which mkdir() or write_text() raises on the report of
\* the key: the exception leaves the loop and aggregate_directories
AggSourceFails ==
  /\ a_pc = "sources"
  /\ a_keys # <<>>
  /\ EndsWith(Head(a_keys), txt_dot_c)
  /\ a_ret' = WriteError
  /\ a_pc' = "done"
  /\ UNCHANGED <<results_dirs, a_ndirs, all_info, all_json, all_gcov_paths,
                 by_source, a_keys, out_files, out_reports, out_global, written,
                 a_log>>
  /\ UNCHANGED <<foldvars, parsevars, expvars, mainvars, dirvars>>

\* write_cumulative_gcov(all_gcov_paths, output_dir / "cumulative.gcov.txt")
AggGlobal ==
  /\ a_pc = "sources"
  /\ a_keys = <<>>
  /\ LET res == write_cumulative_gcov(ContentsOf(results_dirs, all_gcov_paths))
     IN  IF res.ret
           THEN /\ out_global' = File(res.text)
                /\ a_log' = Append(a_log, MsgGlobal)
           ELSE UNCHANGED <<out_global, a_log>>
  /\ a_pc' = "stages"
  /\ UNCHANGED <<results_dirs, a_ndirs, all_info, all_json, all_gcov_paths,
                 by_source, a_keys, out_files, out_reports, written, a_ret>>
  /\ UNCHANGED <<foldvars, parsevars, expvars, mainvars, dirvars>>

AggNext ==
  \/ AggDirAbsent
  \/ AggDir
  \/ AggDirUnreadable
  \/ AggGroup
  \/ AggSource
  \/ AggSourceFails
  \/ AggGlobal

SpecAgg == AggInit /\ [][AggNext]_vars

----------------------------------------------------------------------------
(* Properties of one aggregation pass *)

Range(f) == {f[k] : k \in DOMAIN f}

\* The key and the ExecutionMap of a snapshot path of this pass
KeyOf(p) == SourceKey(Read(results_dirs, p))
CovOf(p) == parse_gcov_coverage(Read(results_dirs, p))

\* The snapshots of all_gcov_paths whose key is key, in order
RECURSIVE SelectKey(_, _)
SelectKey(paths, key) ==
  IF paths = <<>> THEN <<>>
  ELSE (IF KeyOf(Head(paths)) = key THEN <<Head(paths)>> ELSE <<>>)
         \o SelectKey(Tail(paths), key)

\* The line number of a report line: the digits after the first ":"
ReportNumber(line) ==
  LET st == Span(line, IndexOf(line, ":", 1) + 1, Whitespace)
  IN  DigitsToInt(SubSeq(line, st, Span(line, st, Digits) - 1))

\* The lines of a report text, without the empty piece after the last newline
ReportLines(text) == SelectSeq(Split(text), LAMBDA l : l # <<>>)

\* Some snapshot among paths lists line n / has a count > 0 for it
ListedIn(paths, n) == \E p \in Range(paths) : n \in DOMAIN CovOf(p)
CoveredIn(paths, n) ==
  \E p \in Range(paths) : n \in DOMAIN CovOf(p) /\ CovOf(p)[n] > 0

\* The loop over results_dirs has ended
AfterLoop == a_pc \in {"sources", "stages"} \/ a_ret = "False"

\* Messages that aggregate_directories prints on a pass without anomaly
PlainMessages == {MsgNoGcov.kind, MsgReport(<<>>, 0).kind, MsgGlobal.kind}

\* Two snapshots of the group of key differ in their number of lines
Mismatch(key) ==
  \E p, q \in Range(PathsOf(by_source, key)) :
    CountNL(Read(results_dirs, p)) # CountNL(Read(results_dirs, q))

\* C11: when two snapshots of one SourceKey have different line counts, the
\* pass reports the mismatch: the cumulative report of that key is never
\* written with nothing but the ordinary messages printed.
C11_MismatchReported ==
  \A k \in DOMAIN written :
    Mismatch(written[k].key)
      => \E m \in DOMAIN a_log : a_log[m].kind \notin PlainMessages

\* C12: in the global cumulative report, a line is marked "+" only if a
\* snapshot with the SourceKey of the template has a count > 0 for its
\* number, and "#####" only if such a snapshot lists it: snapshots of
\* other source files change no marker.
C12_GlobalRespectsGrouping ==
  out_global.exists =>
    LET same == SelectKey(all_gcov_paths, KeyOf(all_gcov_paths[1]))
        ls   == ReportLines(out_global.text)
    IN  \A j \in DOMAIN ls :
          /\ OutMarker(ls[j]) = Plus => CoveredIn(same, ReportNumber(ls[j]))
          /\ OutMarker(ls[j]) = Hashes => ListedIn(same, ReportNumber(ls[j]))

\* C13: the per-source report written for key K is the fold of exactly the
\* snapshots of all_gcov_paths whose key is K: a line is marked "+" only if
\* one of them has a count > 0 for it and "#####" only if one of them lists
\* it, whatever snapshots of other keys say.
C13_PerSourceOnlyOwnKey ==
  \A k \in DOMAIN written :
    LET same == SelectKey(all_gcov_paths, written[k].key)
        ls   == ReportLines(written[k].text)
    IN  /\ PathsOf(by_source, written[k].key) = same
        /\ written[k].text
             = write_cumulative_gcov(ContentsOf(results_dirs, same)).text
        /\ \A j \in DOMAIN ls :
             /\ OutMarker(ls[j]) = Plus => CoveredIn(same, ReportNumber(ls[j]))
             /\ OutMarker(ls[j]) = Hashes => ListedIn(same, ReportNumber(ls[j]))

\* A report of one key keeps "#####" on a line that a snapshot of another
\* key has executed, and "+" on a line only a later snapshot of its own key
\* has executed.
C13_Witness ==
  /\ a_pc = "stages"
  /\ \E k \in DOMAIN written :
       LET ls == ReportLines(written[k].text)
       IN  \E j \in DOMAIN ls :
             /\ OutMarker(ls[j]) = Hashes
             /\ \E p \in Range(all_gcov_paths) :
                  /\ KeyOf(p) # written[k].key
                  /\ ReportNumber(ls[j]) \in DOMAIN CovOf(p)
                  /\ CovOf(p)[ReportNumber(ls[j])] > 0

\* C14: a pass over snapshots of k distinct SourceKeys ending in ".c"
\* leaves exactly k per-source report files, the one of each key holding
\* that key's merge, and one global report.
C14_OneReportPerKey ==
  a_pc = "stages" =>
    LET K == {key \in Keys(by_source) : EndsWith(key, txt_dot_c)}
    IN  /\ Len(out_reports) = Cardinality(K)
        /\ \A key \in K :
             /\ HasFile(out_reports, source_to_dirname(key))
             /\ FileOf(out_reports, source_to_dirname(key))
                  = write_cumulative_gcov(
                      ContentsOf(results_dirs, PathsOf(by_source, key))).text
        /\ out_global.exists

\* The snapshot files of the run directories taken that have no Source line
Unresolved ==
  {p \in UNION {{PathOf(d - 1, k) : k \in DOMAIN results_dirs[d].files} :
                d \in DOMAIN results_dirs} :
     ~parse_gcov_source_path(Read(results_dirs, p)).some}

\* C18: a snapshot without a Source line is kept by the pass under the key
\* "unknown": it is exported to tracefiles, collected for the reports and,
\* once the snapshots are grouped, found in the group of that key.
C18_UnknownKeyRouted ==
  AfterLoop =>
    \A p \in Unresolved :
      /\ \E f \in DOMAIN out_files : out_files[f].val = p
      /\ p \in Range(all_gcov_paths)
      /\ a_pc \in {"sources", "stages"} =>
           \E g \in DOMAIN by_source :
             by_source[g].key = txt_unknown /\ p \in Range(by_source[g].paths)

\* The loop over results_dirs from index idx on
RECURSIVE CollectOver(_, _, _)
CollectOver(acc, dirs, idx) ==
  IF idx >= Len(dirs) THEN acc
  ELSE CollectOver(TakeDir(acc, idx, dirs[idx + 1]), dirs, idx + 1)

\* The loop over the sorted keys
RECURSIVE SourcesOver(_, _, _, _)
SourcesOver(st, dirs, groups, keys) ==
  IF keys = <<>> THEN st
  ELSE SourcesOver(SourceStep(st, dirs, groups, Head(keys)), dirs, groups,
                   Tail(keys))

\* What a pass leaves, without the names that carry a directory index: the
\* snapshots collected, the snapshot exported to each line-trace and
\* structured-trace file, the reports, the messages and the result
Outcome(dirs, acc, reports, global, log, result) ==
  [snapshots |-> ContentsOf(dirs, acc.all_gcov_paths),
   info      |-> [k \in DOMAIN acc.all_info |->
                    Read(dirs, FileOf(acc.out_files, acc.all_info[k]))],
   json      |-> [k \in DOMAIN acc.all_json |->
                    Read(dirs, FileOf(acc.out_files, acc.all_json[k]))],
   reports   |-> reports,
   global    |-> global,
   log       |-> log,
   result    |-> result]

\* aggregate_directories(dirs) up to the global report
aggregate_directories(dirs) ==
  LET acc == CollectOver(EmptyAcc, dirs, 0)
  IN  IF acc.all_info = <<>> /\ acc.all_json = <<>>
        THEN Outcome(dirs, acc, <<>>, NoFile, <<MsgNoGcov>>, "False")
      ELSE LET groups == group_gcov_paths_by_source(dirs, acc.all_gcov_paths)
               st == SourcesOver([out_reports |-> <<>>, written |-> <<>>,
                                  a_log |-> <<>>],
                                 dirs, groups, SortedKeys(Keys(groups)))
               res == write_cumulative_gcov(ContentsOf(dirs, acc.all_gcov_paths))
           IN  Outcome(dirs, acc, st.out_reports,
                       IF res.ret THEN File(res.text) ELSE NoFile,
                       IF res.ret THEN Append(st.a_log, MsgGlobal) ELSE st.a_log,
                       "none")

\* The list without its absent directories and those holding no snapshot
Kept(dirs) == SelectSeq(dirs, LAMBDA d : d.exists /\ d.files # <<>>)

\* C19: absent and empty run directories are skipped and every snapshot of
\* the other directories is processed: the snapshots collected and exported,
\* the cumulative reports, the messages and the result of the pass are
\* those of a pass over the list without the absent and empty directories.
C19_AbsentAndEmptySkipped ==
  (a_pc = "stages" \/ a_ret = "False") =>
    Outcome(results_dirs, Acc, out_reports, out_global, a_log, a_ret)
      = aggregate_directories(Kept(results_dirs))

\* A pass that met an absent directory before one whose snapshot it kept
C19_Witness ==
  /\ a_pc = "stages"
  /\ out_global.exists
  /\ \E p \in Range(all_gcov_paths) :
       \E d \in 1..p.dir : ~results_dirs[d].exists

\* C20: the tracefile names generated in one pass are pairwise different,
\* so each line-trace and structured-trace file still holds the export of
\* the snapshot it was generated for.
C20_TracefileNamesUnique ==
  /\ Len(all_info) = Len(all_gcov_paths)
  /\ Len(all_json) = Len(all_gcov_paths)
  /\ \A j, k \in DOMAIN all_info : j # k => all_info[j] # all_info[k]
  /\ \A j, k \in DOMAIN all_json : j # k => all_json[j] # all_json[k]
  /\ \A j \in DOMAIN all_info : \A k \in DOMAIN all_json : all_info[j] # all_json[k]
  /\ a_ret # ReadError => Len(out_files) = 2 * Len(all_gcov_paths)
  /\ \A k \in DOMAIN all_gcov_paths :
       /\ FileOf(out_files, all_info[k]) = all_gcov_paths[k]
       /\ FileOf(out_files, all_json[k]) = all_gcov_paths[k]

\* Two run directories with the same basename each gave a tracefile
C20_Witness ==
  /\ AfterLoop
  /\ \E p, q \in Range(all_gcov_paths) :
       /\ p.dir # q.dir
       /\ results_dirs[p.dir + 1].name = results_dirs[q.dir + 1].name

----------------------------------------------------------------------------
(* The two parsers against each other, and the report read back *)

\* C27: for every snapshot text, the line numbers that parse_gcov_lines
\* returns with a marker other than "-" are the keys of the ExecutionMap
\* that parse_gcov_coverage returns for the same text.
C27_ParsersAgree ==
  (p_fn = "lines" /\ p_pc = "returned") =>
    {lines_out[k][2] : k \in {j \in DOMAIN lines_out : lines_out[j][1] # Dash}}
      = DOMAIN parse_gcov_coverage(p_content)

\* C28: the report written by write_cumulative_gcov reads back through the
\* same parsers: every output line gives the line number and raw_tail of
\* the template line at its position, the lines read back as executed are
\* those the report marks "+", and the lines read back as executable are
\* those it marks "+" or "#####".
C28_ReportReadsBack ==
  Written =>
    LET back == parse_gcov_lines(output.text)
        cov  == parse_gcov_coverage(output.text)
        outl == Split(output.text)
        T    == 1..Len(template_lines)
    IN  /\ \A k \in T : /\ back[k][2] = template_lines[k][2]
                        /\ back[k][3] = template_lines[k][3]
        /\ {n \in DOMAIN cov : cov[n] > 0}
             = {template_lines[k][2] : k \in {j \in T : OutMarker(outl[j]) = Plus}}
        /\ DOMAIN cov
             = {template_lines[k][2] :
                  k \in {j \in T : OutMarker(outl[j]) \in {Plus, Hashes}}}

----------------------------------------------------------------------------
(* _source_to_dirname run alone on one source key *)

PathChars == {".", "/", "\\", "_", " ", "a"}

\* Source keys that aggregate_directories gives it: they end in ".c"
DirnamePaths == {stem \o txt_dot_c : stem \in SeqsUpTo(PathChars, MaxStem)}

DirnameInit ==
  /\ FoldIdle /\ ParseIdle /\ ExportIdle /\ AggIdle /\ MainIdle
  /\ d_path \in DirnamePaths
  /\ d_name = NoResult

DirnameCall ==
  /\ ~d_name.done
  /\ d_name' = [done |-> TRUE, val |-> source_to_dirname(d_path)]
  /\ UNCHANGED d_path
  /\ UNCHANGED <<foldvars, parsevars, expvars, aggvars, mainvars>>

DirnameNext == DirnameCall

SpecDirname == DirnameInit /\ [][DirnameNext]_vars

\* C30: for a key ending in ".c", _source_to_dirname returns a non-empty
\* name without "/" or "\", different from "." and "..": a direct child of
\* the output directory.
C30_DirnameIsChild ==
  d_name.done =>
    /\ d_name.val # <<>>
    /\ "/" \notin Range(d_name.val)
    /\ "\\" \notin Range(d_name.val)
    /\ d_name.val \notin {<<".">>, <<".", ".">>}

\* A key that starts with a parent prefix written with a backslash has
\* been named without it
C30_Witness ==
  /\ d_name.done
  /\ StartsWith(d_path, <<".", ".", "\\">>)
  /\ d_name.val = txt_dot_c

----------------------------------------------------------------------------
(* Files that cannot be read or written during a pass *)

\* C25: a snapshot file that is missing or unreadable when it is read is
\* skipped: no exception leaves aggregate_directories because of it.
C25_UnreadableSkipped ==
  (\E d \in DOMAIN results_dirs : results_dirs[d].unreadable)
    => a_ret \notin Exceptions

\* C26: when the report of one SourceKey cannot be written, the reports of
\* all other keys of the pass are still written.
C26_OtherKeysStillReported ==
  a_ret = WriteError =>
    \A key \in Keys(by_source) \ {Head(a_keys)} :
      \E k \in DOMAIN written : written[k].key = key

----------------------------------------------------------------------------
(* The export stages of aggregate_directories: merge_lcov, summary_lcov,
   merge_and_summary_gcovr *)

MsgUsing == Msg("Using coverage dirs", <<>>, 0)
MsgNoDirs == Msg("No *_symbolic_coverage dirs found", <<>>, 0)
MsgLcovMissing == Msg("lcov not installed, skipping lcov merge/summary", <<>>, 0)
MsgLcovMergeFailed == Msg("lcov merge failed", <<>>, 0)
MsgLcovHeader == Msg("--- lcov merged summary ---", <<>>, 0)
MsgLcovSummaryFailed == Msg("lcov summary failed", <<>>, 0)
MsgLcovSummary == Msg("lcov --summary stdout", <<>>, 0)
MsgGcovrHeader == Msg("--- gcovr merged summary ---", <<>>, 0)
MsgGcovrMissing == Msg("gcovr not installed, skipping gcovr summary", <<>>, 0)
MsgGcovrFailed == Msg("gcovr failed", <<>>, 0)
MsgGcovrReport == Msg("gcovr stdout", <<>>, 0)
MsgTracefilesIn == Msg("Tracefiles and merged output in", <<>>, 0)
MsgSaved == Msg("Merged summary saved to", <<>>, 0)

\* The messages written with print(), which main tees into the summary file
StdoutKinds ==
  {MsgUsing.kind, MsgReport(<<>>, 0).kind, MsgGlobal.kind, MsgLcovHeader.kind,
   MsgLcovSummary.kind, MsgGcovrHeader.kind, MsgGcovrReport.kind,
   MsgTracefilesIn.kind, MsgSaved.kind}
Stdout(log) == SelectSeq(log, LAMBDA m : m.kind \in StdoutKinds)

\* What a tool does when it is run: it is not installed, exits with 0, exits
\* with another status, or does not end within the timeout
MergeOutcomes == {"missing", "ok", "fail", "timeout"}
SummaryOutcomes == {"ok", "fail", "timeout"}

\* A stage state: the local ok, the messages, whether an exception was raised
Stage(ok, log, raised) == [ok |-> ok, log |-> log, raised |-> raised]

\* An lcov stage that counts a missing tool as a failure.
LcovStage_strict(st, merge, summary) ==
  IF merge = "timeout" THEN Stage(st.ok, st.log, TRUE)
  ELSE IF merge = "missing" THEN Stage(FALSE, Append(st.log, MsgLcovMissing), FALSE)
  ELSE IF merge = "ok"
    THEN IF summary = "timeout"
           THEN Stage(st.ok, Append(st.log, MsgLcovHeader), TRUE)
         ELSE IF summary = "fail"
           THEN Stage(FALSE, st.log \o <<MsgLcovHeader, MsgLcovSummaryFailed>>, FALSE)
         ELSE Stage(st.ok, st.log \o <<MsgLcovHeader, MsgLcovSummary>>, FALSE)
  ELSE Stage(FALSE, Append(st.log, MsgLcovMergeFailed), FALSE)

\* The body of "if use_lcov and all_info": merge_lcov, then summary_lcov
\* when the merge succeeded
LcovStage(st, merge, summary) ==
  IF merge = "timeout" THEN Stage(st.ok, st.log, TRUE)
  ELSE IF merge = "missing" THEN Stage(st.ok, Append(st.log, MsgLcovMissing), FALSE)
  ELSE IF merge = "ok"
    THEN IF summary = "timeout"
           THEN Stage(st.ok, Append(st.log, MsgLcovHeader), TRUE)
         ELSE IF summary = "fail"
           THEN Stage(FALSE, st.log \o <<MsgLcovHeader, MsgLcovSummaryFailed>>, FALSE)
         ELSE Stage(st.ok, st.log \o <<MsgLcovHeader, MsgLcovSummary>>, FALSE)
  ELSE Stage(FALSE, Append(st.log, MsgLcovMergeFailed), FALSE)

\* A gcovr stage that does not record a failure.
GcovrStage_forget(st, gcovr) ==
  IF gcovr = "timeout" THEN Stage(st.ok, Append(st.log, MsgGcovrHeader), TRUE)
  ELSE IF gcovr = "missing"
    THEN Stage(st.ok, st.log \o <<MsgGcovrHeader, MsgGcovrMissing>>, FALSE)
  ELSE IF gcovr = "fail"
    THEN Stage(st.ok, st.log \o <<MsgGcovrHeader, MsgGcovrFailed>>, FALSE)
  ELSE Stage(st.ok, st.log \o <<MsgGcovrHeader, MsgGcovrReport>>, FALSE)

\* The body of "if use_gcovr and all_json": merge_and_summary_gcovr
GcovrStage(st, gcovr) ==
  IF gcovr = "timeout" THEN Stage(st.ok, Append(st.log, MsgGcovrHeader), TRUE)
  ELSE IF gcovr = "missing"
    THEN Stage(st.ok, st.log \o <<MsgGcovrHeader, MsgGcovrMissing>>, FALSE)
  ELSE IF gcovr = "fail"
    THEN Stage(FALSE, st.log \o <<MsgGcovrHeader, MsgGcovrFailed>>, FALSE)
  ELSE Stage(st.ok, st.log \o <<MsgGcovrHeader, MsgGcovrReport>>, FALSE)

----------------------------------------------------------------------------
(* main: invocations of the command on one output directory *)

\* The results_dirs of an invocation
in_empty == <<Dir(name_r, <<>>)>>
in_a == <<Dir(name_r, <<snap_a1>>)>>
in_ab == <<Dir(name_r, <<snap_a1>>), Dir(name_r, <<snap_b>>)>>
MainInputs == {in_empty, in_a, in_ab}

Names(fs) == {fs[k].name : k \in DOMAIN fs}

MainInit ==
  /\ FoldIdle /\ ParseIdle /\ ExportIdle /\ AggIdle /\ MainIdle /\ DirIdle

\* No results_dirs argument and discover_coverage_dirs finds nothing:
\* sys.exit(1) before the summary file is opened
MainNoDirs ==
  /\ m_pc \in {"idle", "exited"}
  /\ m_pass < MaxPasses
  /\ m_pass' = m_pass + 1
  /\ m_pc' = "exited"
  /\ m_exit' = "1"
  /\ a_pc' = "done"
  /\ results_dirs' = <<>>
  /\ a_ndirs' = 0
  /\ all_info' = <<>>
  /\ all_json' = <<>>
  /\ all_gcov_paths' = <<>>
  /\ by_source' = <<>>
  /\ a_keys' = <<>>
  /\ out_files' = <<>>
  /\ out_reports' = <<>>
  /\ out_global' = NoFile
  /\ written' = <<>>
  /\ a_log' = <<MsgNoDirs>>
  /\ a_ret' = "none"
  /\ a_tools' = NoTools
  /\ a_ok' = TRUE
  /\ UNCHANGED <<o_dir, o_summary>>
  /\ UNCHANGED <<foldvars, parsevars, expvars, dirvars>>

\* main up to the call of aggregate_directories: the summary file is opened
\* for writing and "Using coverage dirs" is printed
MainCall ==
  /\ m_pc \in {"idle", "exited"}
  /\ m_pass < MaxPasses
  /\ m_pass' = m_pass + 1
  /\ m_pc' = "called"
  /\ m_exit' = "none"
  /\ o_summary' = [exists |-> TRUE, pass |-> m_pass + 1, text |-> <<MsgUsing>>]
  /\ \E dirs \in MainInputs :
       /\ results_dirs' = dirs
       /\ a_ndirs' = Len(dirs)
  /\ \E use_lcov, use_gcovr \in BOOLEAN :
       a_tools' = [NoTools EXCEPT !.use_lcov = use_lcov, !.use_gcovr = use_gcovr]
  /\ a_pc' = "dirs"
  /\ all_info' = <<>>
  /\ all_json' = <<>>
  /\ all_gcov_paths' = <<>>
  /\ by_source' = <<>>
  /\ a_keys' = <<>>
  /\ out_files' = <<>>
  /\ out_reports' = <<>>
  /\ out_global' = NoFile
  /\ written' = <<>>
  /\ a_log' = <<>>
  /\ a_ret' = "none"
  /\ a_ok' = TRUE
  /\ UNCHANGED o_dir
  /\ UNCHANGED <<foldvars, parsevars, expvars, dirvars>>

\* aggregate_directories from its entry to the global report: the loop over
\* results_dirs, the return of False without tracefiles, the per-source
\* reports and the global report
AggCollect ==
  /\ m_pc = "called"
  /\ a_pc = "dirs"
  /\ LET acc == CollectOver(EmptyAcc, results_dirs, 0)
         groups == group_gcov_paths_by_source(results_dirs, acc.all_gcov_paths)
         st == SourcesOver([out_reports |-> <<>>, written |-> <<>>, a_log |-> <<>>],
                           results_dirs, groups, SortedKeys(Keys(groups)))
         res == write_cumulative_gcov(ContentsOf(results_dirs, acc.all_gcov_paths))
     IN  /\ all_info' = acc.all_info
         /\ all_json' = acc.all_json
         /\ all_gcov_paths' = acc.all_gcov_paths
         /\ out_files' = acc.out_files
         /\ IF acc.all_info = <<>> /\ acc.all_json = <<>>
              THEN /\ a_log' = <<MsgNoGcov>>
                   /\ a_ret' = "False"
                   /\ a_pc' = "done"
                   /\ UNCHANGED <<by_source, out_reports, written, out_global>>
              ELSE /\ by_source' = groups
                   /\ out_reports' = st.out_reports
                   /\ written' = st.written
                   /\ out_global' = IF res.ret THEN File(res.text) ELSE NoFile
                   /\ a_log' = IF res.ret THEN Append(st.a_log, MsgGlobal)
                                          ELSE st.a_log
                   /\ a_pc' = "stages"
                   /\ UNCHANGED a_ret
         /\ o_dir' = [o_dir EXCEPT
                        !.tracefiles = @ \cup Names(out_files'),
                        !.reports = @ \cup Names(out_reports'),
                        !.global = @ \/ out_global'.exists]
  /\ UNCHANGED <<results_dirs, a_ndirs, a_keys, a_tools, a_ok, m_pc, m_pass,
                 m_exit, o_summary>>
  /\ UNCHANGED <<foldvars, parsevars, expvars, dirvars>>

\* if use_lcov and all_info: merge_lcov and summary_lcov
AggLcov ==
  /\ a_pc = "stages"
  /\ \E merge \in MergeOutcomes, summary \in SummaryOutcomes :
       LET run == a_tools.use_lcov /\ all_info # <<>>
           st == IF run THEN LcovStage(Stage(a_ok, a_log, FALSE), merge, summary)
                        ELSE Stage(a_ok, a_log, FALSE)
       IN  /\ a_tools' = [a_tools EXCEPT
                            !.lcov = IF run THEN merge ELSE "none",
                            !.summary = IF run /\ merge = "ok" THEN summary
                                                               ELSE "none"]
           /\ a_ok' = st.ok
           /\ a_log' = st.log
           /\ a_ret' = IF st.raised THEN TimeoutError ELSE a_ret
           /\ a_pc' = IF st.raised THEN "done" ELSE "gcovr"
           /\ o_dir' = [o_dir EXCEPT !.merged_info = @ \/ (run /\ merge = "ok")]
  /\ UNCHANGED <<results_dirs, a_ndirs, all_info, all_json, all_gcov_paths,
                 by_source, a_keys, out_files, out_reports, out_global, written,
                 m_pc, m_pass, m_exit, o_summary>>
  /\ UNCHANGED <<foldvars, parsevars, expvars, dirvars>>

\* if use_gcovr and all_json: merge_and_summary_gcovr; return ok
AggGcovr ==
  /\ a_pc = "gcovr"
  /\ \E gcovr \in MergeOutcomes :
       LET run == a_tools.use_gcovr /\ all_json # <<>>
           st == IF run THEN GcovrStage(Stage(a_ok, a_log, FALSE), gcovr)
                        ELSE Stage(a_ok, a_log, FALSE)
       IN  /\ a_tools' = [a_tools EXCEPT !.gcovr = IF run THEN gcovr ELSE "none"]
           /\ a_ok' = st.ok
           /\ a_log' = st.log
           /\ a_ret' = IF st.raised THEN TimeoutError
                       ELSE IF st.ok THEN "True" ELSE "False"
  /\ a_pc' = "done"
  /\ UNCHANGED <<results_dirs, a_ndirs, all_info, all_json, all_gcov_paths,
                 by_source, a_keys, out_files, out_reports, out_global, written,
                 m_pc, m_pass, m_exit, o_dir, o_summary>>
  /\ UNCHANGED <<foldvars, parsevars, expvars, dirvars>>

\* main after aggregate_directories: the last prints, the summary file is
\* closed, sys.exit(0 if ok else 1); an exception skips the prints and ends
\* the command with a traceback and status 1
MainExit ==
  /\ m_pc = "called"
  /\ a_pc = "done"
  /\ m_pc' = "exited"
  /\ IF a_ret \in Exceptions
       THEN /\ o_summary' = [o_summary EXCEPT !.text = @ \o Stdout(a_log)]
            /\ m_exit' = "1"
       ELSE /\ o_summary' = [o_summary EXCEPT !.text =
                               @ \o Stdout(a_log)
                                 \o (IF a_ret = "True" THEN <<MsgTracefilesIn>>
                                                       ELSE <<>>)
                                 \o <<MsgSaved>>]
            /\ m_exit' = IF a_ret = "True" THEN "0" ELSE "1"
  /\ UNCHANGED <<aggvars, a_tools, a_ok, m_pass, o_dir>>
  /\ UNCHANGED <<foldvars, parsevars, expvars, dirvars>>

MainNext ==
  \/ MainNoDirs
  \/ MainCall
  \/ AggCollect
  \/ AggLcov
  \/ AggGcovr
  \/ MainExit

SpecMain == MainInit /\ [][MainNext]_vars

----------------------------------------------------------------------------
(* Properties of the export stages and of the command *)

\* aggregate_directories has ended on an input with tracefiles
PassOver == a_pc = "done" /\ all_info # <<>>

Logged(m) == \E k \in DOMAIN a_log : a_log[k] = m

\* C21: when the run directories of an invocation hold no snapshot, the
\* pass reports that none was found, aggregate_directories returns False,
\* the command exits with a non-zero status, and the invocation has written
\* no tracefile, no cumulative report, no merged trace and no summary file.
C21_EmptyInputNoArtifact ==
  (m_pc = "exited" /\ results_dirs # <<>> /\ TotalFiles(results_dirs) = 0) =>
    /\ Logged(MsgNoGcov)
    /\ a_ret = "False"
    /\ m_exit = "1"
    /\ out_files = <<>>
    /\ out_reports = <<>>
    /\ ~out_global.exists
    /\ a_tools.lcov # "ok"
    /\ o_summary.pass # m_pass

\* The tracefiles and reports of the input are all written
AllWritten ==
  /\ Len(out_files) = 2 * Len(all_gcov_paths)
  /\ \A k \in DOMAIN all_gcov_paths :
       /\ FileOf(out_files, all_info[k]) = all_gcov_paths[k]
       /\ FileOf(out_files, all_json[k]) = all_gcov_paths[k]
  /\ \A key \in Keys(by_source) : HasFile(out_reports, source_to_dirname(key))
  /\ out_global.exists

\* C22: on a non-empty input, a tool that is not installed costs nothing
\* but its stage: the tracefiles and cumulative reports are written, the
\* notice for the missing tool is printed, the other stage is run when it
\* was requested, and the pass returns True unless that other stage failed.
C22_MissingToolDegrades ==
  (PassOver /\ a_ret \notin Exceptions) =>
    /\ a_tools.lcov = "missing" =>
         /\ AllWritten
         /\ Logged(MsgLcovMissing)
         /\ a_tools.use_gcovr => a_tools.gcovr # "none"
         /\ a_tools.gcovr # "fail" => a_ret = "True"
    /\ a_tools.gcovr = "missing" =>
         /\ AllWritten
         /\ Logged(MsgGcovrMissing)
         /\ a_tools.use_lcov => a_tools.lcov # "none"
         /\ (a_tools.lcov # "fail" /\ a_tools.summary # "fail") => a_ret = "True"

\* Both tools were requested, neither is installed, and the pass succeeded
C22_Witness ==
  /\ m_pc = "exited"
  /\ PassOver
  /\ a_tools.lcov = "missing"
  /\ a_tools.gcovr = "missing"
  /\ Len(out_reports) = 2
  /\ a_ret = "True"
  /\ m_exit = "0"

\* C23: aggregate_directories returns True exactly when no stage that was
\* requested and whose tool was available failed: the lcov merge, the lcov
\* summary, the gcovr report. A missing tool and a stage not requested
\* leave the result alone.
C23_SuccessIffStagesSucceeded ==
  (PassOver /\ a_ret \notin Exceptions) =>
    (a_ret = "True" <=> /\ a_tools.lcov # "fail"
                        /\ a_tools.summary # "fail"
                        /\ a_tools.gcovr # "fail")

\* The lcov summary failed after a good merge, gcovr succeeded: False
C23_Witness ==
  /\ PassOver
  /\ a_tools.lcov = "ok"
  /\ a_tools.summary = "fail"
  /\ a_tools.gcovr = "ok"
  /\ a_ret = "False"

\* C24: a tool that exits with a non-zero status or runs into its timeout
\* fails its stage only: the failure is reported, the other stage is still
\* run when requested, and aggregate_directories returns False, no
\* exception leaving it.
C24_ToolFailureConfined ==
  PassOver =>
    /\ a_ret \notin Exceptions
    /\ (a_tools.lcov \in {"fail", "timeout"} \/ a_tools.summary \in {"fail", "timeout"})
         => /\ a_ret = "False"
            /\ Logged(MsgLcovMergeFailed) \/ Logged(MsgLcovSummaryFailed)
            /\ a_tools.use_gcovr => a_tools.gcovr # "none"
    /\ a_tools.gcovr \in {"fail", "timeout"}
         => /\ a_ret = "False"
            /\ Logged(MsgGcovrFailed)

\* C29: after each invocation that ran a pass, the tracefiles and the
\* per-source reports present in the output directory are those that this
\* pass wrote from its own snapshots.
C29_NoStaleOutputs ==
  (m_pc = "exited" /\ results_dirs # <<>>) =>
    /\ o_dir.tracefiles = Names(out_files)
    /\ o_dir.reports = Names(out_reports)

====
